---- MODULE Spec2Model ----
(***************************************************************************)
(* Identity-and-trust subsystem of the Smart Slack Bot: the Azure AD login *)
(* flow (AzureAuthService), the signed session token, the revocation and   *)
(* permission checks of the auth and admin routers, and the Slack webhook  *)
(* signature middleware.                                                   *)
(*                                                                         *)
(* Time is the value of Math.floor(Date.now() / 1000), in seconds.  The    *)
(* database (Prisma over PostgreSQL) is one authoritative store; every     *)
(* Prisma call is one atomic step at the store, and the JavaScript between *)
(* two awaits runs without interleaving.                                   *)
(***************************************************************************)
EXTENDS Integers, Sequences, FiniteSets, Bags, TLC

(***************************************************************************)
(* Bounds of the model.                                                    *)
(***************************************************************************)
MaxTicks == 2          \* clock advances of the session-token specifications
MaxCallbacks == 2      \* callback exchanges started in one behaviour
MaxRequests == 2       \* protected requests served in one behaviour
MaxInFlight == 1       \* protected requests in flight at once
MaxWebhookTicks == 3   \* clock advances of the webhook specification

OneDay == 24 * 60 * 60    \* step of the clock in Spec, SpecLogin and SpecPerm
FiveMinutes == 5 * 60     \* step of the clock in SpecWebhook

(***************************************************************************)
(* Values.                                                                 *)
(***************************************************************************)
NoTime == 0 - 1                    \* a null DateTime column
NoUser == 0                        \* no user id
ExtIds == {"ext-1", "ext-2"}       \* account.homeAccountId values
Emails == {"a@x.com", "b@x.com"}   \* profile.mail values
States == {"s1", "s2"}             \* CSRF state values
NoState == "none"
NoCode == "none"
Codes == {"c1", "c2", "c3"}        \* authorization codes of the provider
\* the account and the profile the provider holds behind each code
CodeOwner == [c \in Codes |-> IF c = "c3" THEN "ext-2" ELSE "ext-1"]
CodeEmail == [c \in Codes |-> IF c = "c1" THEN "a@x.com" ELSE "b@x.com"]
PermNames == {"admin", "reports"}
Instances == {"app", "authRouter", "adminRouter"}

\* process.env.JWT_SECRET as the deployment sets it
\* process.env: each variable holds its configured value or is Absent
Absent == ""
EnvNames == {"AZURE_CLIENT_ID", "AZURE_CLIENT_SECRET", "AZURE_TENANT_ID",
             "JWT_SECRET", "SLACK_SIGNING_SECRET"}
FullEnv == [n \in EnvNames |-> n]
Issuer == "smart-slack-bot"
Audience == "smart-slack-bot-users"

\* 60 * 60 * 24 of generateJWT
TokenLifetime == 60 * 60 * 24

VARIABLES
  now,          \* Math.floor(Date.now() / 1000)
  msalClient,   \* per AzureAuthService instance: this.msalClient is non-null
  users,        \* table users: id -> row
  grants,       \* table user_permissions: set of rows
  authLog,      \* table auth_logs: bag of rows
  usedCodes,    \* provider side: authorization codes already redeemed
  tokens,       \* session tokens minted by generateJWT so far
  issuedStates, \* state values returned by getAuthUrl so far
  cb,           \* callback exchanges: slot -> progress
  rq,           \* protected requests in flight or just answered: slot -> progress
  served,       \* number of protected requests received so far
  permCall,     \* last direct checkUserPermission call and its result
  wh,           \* last webhook request and the middleware's answer
  jwtCall,      \* last direct verifyJWT call and its result
  refreshCall,  \* last direct refreshToken call and its outcome
  process       \* process.env as read by the code, and whether the process has exited

vars == <<now, msalClient, users, grants, authLog, usedCodes, tokens,
          issuedStates, cb, rq, served, permCall, wh, jwtCall, refreshCall,
                 process>>

(***************************************************************************)
(* Session tokens.  A signature is the pair (key, signed claims): it       *)
(* verifies under a key exactly when it was made with that key over the    *)
(* claims the token carries.                                               *)
(***************************************************************************)
NoToken == [kind |-> "none"]
Malformed == [kind |-> "malformed"]
NullClaims == [kind |-> "null"]

Sign(key, claims) == [key |-> key, over |-> claims]

\* the signature part of a token under the algorithm its header declares:
\* HS256 as minted, another HMAC, or none (an unsigned token)
SignAs(alg, key, claims) ==
  IF alg = "HS256" THEN Sign(key, claims)
  ELSE IF alg = "none" THEN [alg |-> "none", key |-> "", over |-> claims]
  ELSE [alg |-> alg, key |-> key, over |-> claims]

JwtSecret ==
  IF process.env["JWT_SECRET"] = Absent THEN "your-secret-key"
  ELSE process.env["JWT_SECRET"]

\* generateJWT with a lifetime of one hour
generateJWTOneHour(user, t) ==
  LET payload == [userId |-> user.id, email |-> user.email, iat |-> t,
                  exp |-> t + 60 * 60, iss |-> Issuer, aud |-> Audience]
  IN [kind |-> "jwt", alg |-> "HS256", claims |-> payload,
      sig |-> Sign(JwtSecret, payload)]

generateJWT(user, t) ==
  LET payload == [userId |-> user.id, email |-> user.email, iat |-> t,
                  exp |-> t + TokenLifetime, iss |-> Issuer, aud |-> Audience]
  IN [kind |-> "jwt", alg |-> "HS256", claims |-> payload,
      sig |-> Sign(JwtSecret, payload)]

\* jwt.decode: the payload, with no check of signature or expiry
jwtDecode(token) ==
  IF token.kind = "jwt" THEN token.claims ELSE NullClaims

\* verifyJWT that does not check the expiry
verifyJWTNoExpiry(token, t) ==
  IF token.kind # "jwt" THEN NullClaims
  ELSE IF token.sig # Sign(JwtSecret, token.claims) THEN NullClaims
  ELSE IF token.claims.iss # Issuer \/ token.claims.aud # Audience THEN NullClaims
  ELSE token.claims

\* verifyJWT that does not check the signature
verifyJWTNoSignature(token, t) ==
  IF token.kind # "jwt" THEN NullClaims
  ELSE IF t >= token.claims.exp THEN NullClaims
  ELSE IF token.claims.iss # Issuer \/ token.claims.aud # Audience THEN NullClaims
  ELSE token.claims

\* verifyJWT that verifies under the algorithm the token declares
verifyJWTTrustsAlg(token, t) ==
  IF token.kind # "jwt" THEN NullClaims
  ELSE IF token.sig # SignAs(token.alg, JwtSecret, token.claims) THEN NullClaims
  ELSE IF t >= token.claims.exp THEN NullClaims
  ELSE IF token.claims.iss # Issuer \/ token.claims.aud # Audience THEN NullClaims
  ELSE token.claims

\* jwt.verify with algorithms, issuer and audience pinned; null on any error
verifyJWT(token, t) ==
  IF token.kind # "jwt" THEN NullClaims
  ELSE IF token.alg # "HS256" THEN NullClaims
  ELSE IF token.sig # Sign(JwtSecret, token.claims) THEN NullClaims
  ELSE IF t >= token.claims.exp THEN NullClaims
  ELSE IF token.claims.iss # Issuer \/ token.claims.aud # Audience THEN NullClaims
  ELSE token.claims

\* validateToken up to its database lookup: "false" or the user id to look up
validateTokenSync(token, t) ==
  LET decoded == jwtDecode(token)
      verified == verifyJWT(token, t)
  IN IF decoded = NullClaims THEN [ok |-> FALSE, userId |-> NoUser]
     ELSE IF decoded.exp # 0 /\ decoded.exp < t THEN [ok |-> FALSE, userId |-> NoUser]
     ELSE IF verified = NullClaims THEN [ok |-> FALSE, userId |-> NoUser]
     ELSE [ok |-> TRUE, userId |-> verified.userId]

\* validateToken that answers for any user it finds
validateTokenIgnoresActive(found, isActive) == found

\* validateToken after the lookup: user && user.isActive

validateTokenResult(found, isActive) == found /\ isActive

\* Tokens a client can present: the minted ones, a minted one whose expiry
\* was pushed out under the old signature, and a string that is no JWT.
Tampered(tok) ==
  [tok EXCEPT !.claims = [tok.claims EXCEPT !.exp = tok.claims.exp + TokenLifetime]]

Presentable ==
  tokens \cup {Tampered(tok) : tok \in tokens} \cup {Malformed}

(***************************************************************************)
(* The users table.                                                        *)
(***************************************************************************)
UsersByAzureId(a) == {id \in DOMAIN users : users[id].azureId = a}

EmailConflict(email, a) ==
  \E id \in DOMAIN users : users[id].email = email /\ users[id].azureId # a

\* encryptToken: base64 of the provider access token
encryptToken(accessToken) == <<"base64", accessToken>>
NullAccessToken == <<"null", "">>

\* the row prisma.user.upsert leaves for userData, keyed by azureId
\* an upsert that resolves the row by email instead of azureId
UpsertByEmail(data) ==
  LET byEmail == {u \in DOMAIN users : users[u].email = data.email}
  IN IF byEmail = {}
       THEN LET id == Cardinality(DOMAIN users) + 1
            IN [id |-> id,
                table |-> [u \in DOMAIN users \cup {id} |->
                             IF u = id
                               THEN [azureId |-> data.azureId, email |-> data.email,
                                     isActive |-> data.isActive,
                                     accessToken |-> data.accessToken,
                                     lastLoginAt |-> data.lastLoginAt,
                                     lastLogoutAt |-> NoTime, revokedAt |-> NoTime]
                               ELSE users[u]]]
       ELSE LET id == CHOOSE u \in byEmail : TRUE
            IN [id |-> id,
                table |-> [users EXCEPT ![id].azureId = data.azureId,
                                        ![id].isActive = data.isActive,
                                        ![id].accessToken = data.accessToken,
                                        ![id].lastLoginAt = data.lastLoginAt]]

Upsert(data) ==
  IF UsersByAzureId(data.azureId) = {}
    THEN LET id == Cardinality(DOMAIN users) + 1
         IN [id |-> id,
             table |-> [u \in DOMAIN users \cup {id} |->
                          IF u = id
                            THEN [azureId |-> data.azureId, email |-> data.email,
                                  isActive |-> data.isActive,
                                  accessToken |-> data.accessToken,
                                  lastLoginAt |-> data.lastLoginAt,
                                  lastLogoutAt |-> NoTime, revokedAt |-> NoTime]
                            ELSE users[u]]]
    ELSE LET id == CHOOSE u \in UsersByAzureId(data.azureId) : TRUE
         IN [id |-> id,
             table |-> [users EXCEPT ![id].email = data.email,
                                     ![id].isActive = data.isActive,
                                     ![id].accessToken = data.accessToken,
                                     ![id].lastLoginAt = data.lastLoginAt]]

LogEntry(userId, action, success) ==
  [userId |-> userId, action |-> action, success |-> success]

\* prisma.authLog.create
LogCreate(entry) == authLog (+) SetToBag({entry})

(***************************************************************************)
(* Slots of callback exchanges and protected requests.                     *)
(***************************************************************************)
CbSlots == 1 .. MaxCallbacks
RqSlots == 1 .. MaxInFlight

IdleCallback ==
  [pc |-> "idle", via |-> "none", state |-> NoState,
   ext |-> "none", email |-> "none", loginAt |-> NoTime, userId |-> NoUser,
   outcome |-> "none", jwt |-> NoToken, doneBefore |-> {},
   hadError |-> FALSE, hadCode |-> FALSE, clean |-> FALSE]

\* the exchange has answered: its locals are gone, the answer stays
CbDone(c, outcome, jwt) ==
  [c EXCEPT !.pc = "done", !.outcome = outcome, !.jwt = jwt,
            !.ext = "none", !.email = "none", !.loginAt = NoTime]

CbSucceeded(i) == cb[i].pc = "done" /\ cb[i].outcome = "ok"

(***************************************************************************)
(* AzureAuthService.initialize, called by App.initializeServices on the    *)
(* App's own instance.  The routers construct their own instances and      *)
(* never initialize them.                                                  *)
(***************************************************************************)
AzureConfigured ==
  \A n \in {"AZURE_CLIENT_ID", "AZURE_CLIENT_SECRET", "AZURE_TENANT_ID"} :
     process.env[n] # Absent

\* throws when one of the three Azure AD variables is missing
initialize(inst) ==
  /\ ~msalClient[inst]
  /\ AzureConfigured
  /\ msalClient' = [msalClient EXCEPT ![inst] = TRUE]
  /\ UNCHANGED <<now, users, grants, authLog, usedCodes, tokens, issuedStates,
                 cb, rq, served, permCall, wh, jwtCall, refreshCall,
                 process>>

\* App.initializeServices: SlackService.initialize, then
\* AzureAuthService.initialize; any throw is caught and answered with
\* process.exit(1).  Whether the Slack library refuses to start without a
\* signing secret is not decided by this repository: both outcomes are
\* taken.  JWT_SECRET is read nowhere at startup.
initializeServices ==
  /\ ~process.exited
  /\ \E slackStarts \in IF process.env["SLACK_SIGNING_SECRET"] = Absent
                         THEN BOOLEAN ELSE {TRUE} :
       IF slackStarts /\ AzureConfigured
         THEN initialize("app")
         ELSE /\ process' = [process EXCEPT !.exited = TRUE]
              /\ UNCHANGED <<now, msalClient, users, grants, authLog, usedCodes,
                             tokens, issuedStates, cb, rq, served, permCall, wh,
                             jwtCall, refreshCall>>

(***************************************************************************)
(* getAuthUrl, behind GET /auth/azure (the auth router's instance) or      *)
(* called on the App's instance.  No state store exists: the value is      *)
(* returned, and on the route req.session is undefined (no session         *)
(* middleware is installed), so nothing is kept on the server.             *)
(***************************************************************************)
InstanceOf(via) == IF via = "route" THEN "authRouter" ELSE "app"

\* generateState: an unguessable value, here any of States
getAuthUrl(via, supplied) ==
  /\ \E fresh \in States :
       LET state == IF supplied # NoState THEN supplied ELSE fresh
       IN IF msalClient[InstanceOf(via)]
            THEN issuedStates' = issuedStates \cup {state}
            ELSE UNCHANGED issuedStates   \* TypeError on null msalClient: 500
  /\ UNCHANGED <<now, msalClient, users, grants, authLog, usedCodes, tokens,
                 cb, rq, served, permCall, wh, jwtCall, refreshCall,
                 process>>

(***************************************************************************)
(* GET /auth/callback and handleAuthCallback.                              *)
(***************************************************************************)
\* the route's checks of the query that skip the check of code
routeChecksErrorOnly(hasError, code) ==
  IF hasError THEN "redirect_error" ELSE "proceed"

\* the route's checks of the query: error first, then code
routeChecks(hasError, code) ==
  IF hasError THEN "redirect_error"
  ELSE IF code = NoCode THEN "missing_code"
  ELSE "proceed"

\* The route's checks of error and code, the code exchange, the profile
\* fetch and the construction of userData (lastLoginAt = new Date()).
\* hadError and hadCode keep what the query of a route request carried;
\* clean keeps whether the exchange met a redeemable code, a provider that
\* answered and a profile fetch that answered (and, later, a database that
\* took its writes).
CallbackStart(i, via, code, state, hasError, providerUp, profileOk) ==
  /\ cb[i].pc = "idle"
  /\ IF i = 1 THEN TRUE ELSE cb[i - 1].pc # "idle"
  /\ LET base == [IdleCallback EXCEPT !.via = via, !.state = state,
                    !.doneBefore = {j \in CbSlots : cb[j].pc = "done"},
                    !.hadError = via = "route" /\ hasError,
                    !.hadCode = code # NoCode,
                    !.clean = /\ code # NoCode /\ code \notin usedCodes
                              /\ providerUp /\ profileOk]
         finish(outcome) == [base EXCEPT !.pc = "done", !.outcome = outcome]
         checks == IF via = "route" THEN routeChecks(hasError, code) ELSE "proceed"
     IN IF checks # "proceed"
          THEN /\ cb' = [cb EXCEPT ![i] = finish(checks)]
               /\ UNCHANGED usedCodes
        ELSE IF ~msalClient[InstanceOf(via)]
          THEN /\ cb' = [cb EXCEPT ![i] = finish("callback_failed")]
               /\ UNCHANGED usedCodes
        ELSE IF code = NoCode \/ code \in usedCodes \/ ~providerUp
          THEN /\ cb' = [cb EXCEPT ![i] = finish("callback_failed")]
               /\ UNCHANGED usedCodes
        ELSE IF ~profileOk
          THEN /\ cb' = [cb EXCEPT ![i] = finish("callback_failed")]
               /\ usedCodes' = usedCodes \cup {code}
        ELSE /\ cb' = [cb EXCEPT ![i] = [base EXCEPT !.pc = "upsert",
                                           !.ext = CodeOwner[code],
                                           !.email = CodeEmail[code],
                                           !.loginAt = now]]
             /\ usedCodes' = usedCodes \cup {code}
  /\ UNCHANGED <<now, msalClient, users, grants, authLog, tokens, issuedStates,
                 rq, served, permCall, wh, jwtCall, refreshCall,
                 process>>

\* prisma.user.upsert of upsertUser
CallbackUpsert(i, dbOk) ==
  /\ cb[i].pc = "upsert"
  /\ LET data == [azureId |-> cb[i].ext, email |-> cb[i].email,
                  accessToken |-> encryptToken("at"),
                  lastLoginAt |-> cb[i].loginAt, isActive |-> TRUE]
         res == Upsert(data)
     IN IF ~dbOk \/ EmailConflict(data.email, data.azureId)
          THEN /\ cb' = [cb EXCEPT ![i] = CbDone([cb[i] EXCEPT !.clean = FALSE],
                                               "callback_failed", NoToken)]
               /\ UNCHANGED users
          ELSE /\ users' = res.table
               /\ cb' = [cb EXCEPT ![i].pc = "log", ![i].userId = res.id]
  /\ UNCHANGED <<now, msalClient, grants, authLog, usedCodes, tokens,
                 issuedStates, rq, served, permCall, wh, jwtCall, refreshCall,
                 process>>

\* prisma.authLog.create of upsertUser, then generateJWT and the response
CallbackLog(i, dbOk) ==
  /\ cb[i].pc = "log"
  /\ IF ~dbOk
       THEN /\ cb' = [cb EXCEPT ![i] = CbDone([cb[i] EXCEPT !.clean = FALSE],
                                            "callback_failed", NoToken)]
            /\ UNCHANGED <<authLog, tokens>>
       ELSE LET jwt == generateJWT([id |-> cb[i].userId, email |-> cb[i].email], now)
            IN /\ authLog' = LogCreate(LogEntry(cb[i].userId, "login", TRUE))
               /\ tokens' = tokens \cup {jwt}
               /\ cb' = [cb EXCEPT ![i] = CbDone(cb[i], "ok", jwt)]
  /\ UNCHANGED <<now, msalClient, users, grants, usedCodes, issuedStates,
                 rq, served, permCall, wh, jwtCall, refreshCall,
                 process>>

(***************************************************************************)
(* refreshToken, called on the App's instance or behind POST /auth/refresh *)
(* (the auth router's instance).  ext is the account the refresh token     *)
(* belongs to.  The method throws when this.msalClient is null, when the   *)
(* provider refuses, and when prisma.user.update finds no row or fails;    *)
(* otherwise it updates accessToken and lastLoginAt.  It writes no         *)
(* auth_logs row.                                                          *)
(***************************************************************************)
refreshToken(via, ext, providerOk, dbOk) ==
  LET outcome == IF ~msalClient[InstanceOf(via)] \/ ~providerOk THEN "threw"
                 ELSE IF UsersByAzureId(ext) = {} \/ ~dbOk THEN "threw"
                 ELSE "ok"
  IN /\ refreshCall' = [ext |-> ext, outcome |-> outcome]
     /\ IF outcome = "ok"
          THEN LET id == CHOOSE u \in UsersByAzureId(ext) : TRUE
               IN users' = [users EXCEPT ![id].accessToken = encryptToken("at"),
                                         ![id].lastLoginAt = now]
          ELSE UNCHANGED users
     /\ UNCHANGED <<now, msalClient, grants, authLog, usedCodes, tokens,
                    issuedStates, cb, rq, served, permCall, wh, jwtCall, process>>

(***************************************************************************)
(* Permission grants.  No code of the repository writes user_permissions:  *)
(* rows come from an administrative action on the database.                *)
(***************************************************************************)
Grant(userId, name, isActive, expiresAt) ==
  [userId |-> userId, name |-> name, isActive |-> isActive, expiresAt |-> expiresAt]

\* @@unique([userId, name]); userId references an existing user
GrantPermission(userId, name, expiresAt) ==
  /\ userId \in DOMAIN users
  /\ ~\E g \in grants : g.userId = userId /\ g.name = name
  /\ grants' = grants \cup {Grant(userId, name, TRUE, expiresAt)}
  /\ UNCHANGED <<now, msalClient, users, authLog, usedCodes, tokens,
                 issuedStates, cb, rq, served, permCall, wh, jwtCall, refreshCall,
                 process>>

\* checkUserPermission over the rows of the user (include: { permissions: true })
\* checkUserPermission without its admin clause
checkUserPermissionNameOnly(userId, permission) ==
  IF userId \notin DOMAIN users THEN FALSE
  ELSE \E g \in grants : g.userId = userId /\ g.name = permission

\* a check that any existing user passes
checkUserPermissionAnyUser(userId, permission) == userId \in DOMAIN users

checkUserPermission(userId, permission) ==
  IF userId \notin DOMAIN users THEN FALSE
  ELSE LET permissions == {g \in grants : g.userId = userId}
           hasPermission == \E g \in permissions : g.name = permission
           isAdmin == \E g \in permissions : g.name = "admin"
       IN hasPermission \/ isAdmin

(***************************************************************************)
(* Protected requests: requireAuth of the auth router (logout,             *)
(* check-permission), requireAuth then requireAdmin of the auth router     *)
(* (revoke), requireAdmin of the admin router (overview).                  *)
(***************************************************************************)
Routes == {"logout", "checkPermission", "revoke", "adminOverview"}

\* what the client put on the wire: the Authorization header (its Bearer
\* token), the jwt cookie of the Cookie header, the token query parameter
SentRequest(authorization, cookie, queryToken) ==
  [authorization |-> authorization, cookie |-> cookie, queryToken |-> queryToken]

\* the token the client presents with a request: the one in the first
\* place that carries one, in the order header, cookie, query parameter
Presented(sent) ==
  IF sent.authorization # NoToken THEN sent.authorization
  ELSE IF sent.cookie # NoToken THEN sent.cookie
  ELSE sent.queryToken

\* cookieOnly keeps whether the request carried its token in the jwt
\* cookie and nowhere else.
\* storeError keeps which database read of the middleware failed, if one
\* did.  presented keeps Presented of what was sent, token what the middleware
\* extracted and verified; status and error are the response of a
\* middleware that refuses (its status code and the error of its body)
IdleRequest ==
  [pc |-> "idle", route |-> "none", presented |-> NoToken,
   token |-> NoToken, tStart |-> NoTime,
   userId |-> NoUser, target |-> NoUser, permission |-> "none",
   looked |-> FALSE, seenFound |-> FALSE, seenActive |-> FALSE,
   reqUser |-> FALSE,
   handlerRan |-> FALSE, hasPermission |-> FALSE, status |-> 0,
   error |-> "none", storeError |-> "none", cookieOnly |-> FALSE]

\* The request as the middleware stack of App.initializeMiddleware hands it
\* over: no cookie parser is installed, so req.cookies is undefined.
MakeRequest(where, tok) ==
  [authorization |-> IF where = "header" THEN tok ELSE NoToken,
   cookies |-> NoToken,
   queryToken |-> IF where = "query" THEN tok ELSE NoToken]

\* req.headers.authorization?.replace('Bearer ', '') || req.cookies?.jwt
\*   || req.query?.token
ExtractToken(req) ==
  IF req.authorization # NoToken THEN req.authorization
  ELSE IF req.cookies # NoToken THEN req.cookies
  ELSE req.queryToken

\* the request object the middleware stack makes of what was sent: header
\* and query are parsed, the Cookie header is not
initializeMiddleware(sent) ==
  [authorization |-> sent.authorization,
   cookies |-> NoToken,
   queryToken |-> sent.queryToken]

\* requireAuth / requireAdmin up to the database lookup of validateToken
RequestReceive(r, route, sent, target, permission) ==
  /\ rq[r].pc \in {"idle", "done"}
  /\ served < MaxRequests
  /\ served' = served + 1
  /\ LET token == ExtractToken(initializeMiddleware(sent))
         base == [IdleRequest EXCEPT !.route = route,
                    !.presented = Presented(sent),
                    !.cookieOnly = /\ sent.cookie # NoToken
                                   /\ sent.authorization = NoToken
                                   /\ sent.queryToken = NoToken,
                    !.token = token, !.tStart = now,
                    !.target = target, !.permission = permission]
         reject(error) == [base EXCEPT !.pc = "done", !.status = 401,
                                       !.error = error]
         decoded == verifyJWT(token, now)
         valid == validateTokenSync(token, now)
     IN IF token = NoToken
          THEN rq' = [rq EXCEPT ![r] = reject("Authentication token required")]
        ELSE IF decoded = NullClaims
          THEN rq' = [rq EXCEPT ![r] = reject("Invalid or expired token")]
        ELSE IF ~valid.ok
          THEN rq' = [rq EXCEPT ![r] = reject("User account is inactive or revoked")]
        ELSE rq' = [rq EXCEPT ![r] = [base EXCEPT !.pc = "lookup",
                                        !.userId = valid.userId]]
  /\ UNCHANGED <<now, msalClient, users, grants, authLog, usedCodes, tokens,
                 issuedStates, cb, permCall, wh, jwtCall, refreshCall,
                 process>>

\* a request that carries the token in one place
RequestStart(r, route, where, tok, target, permission) ==
  LET at(place) == IF where = place THEN tok ELSE NoToken
  IN /\ initializeMiddleware(SentRequest(at("header"), at("cookie"), at("query")))
          = MakeRequest(where, tok)
     /\ RequestReceive(r, route,
                       SentRequest(at("header"), at("cookie"), at("query")),
                       target, permission)

\* a catch that answers true: the check passes when the store fails
catchTrue(dbOk, answer) == ~dbOk \/ answer

\* try { ... return answer } catch (error) { return false }
catchFalse(dbOk, answer) == dbOk /\ answer

\* prisma.user.findUnique of validateToken and what the middleware does with
\* its answer; a failed lookup is caught by validateToken and answers false
RequestLookup(r, dbOk) ==
  /\ rq[r].pc = "lookup"
  /\ LET found == rq[r].userId \in DOMAIN users
         active == found /\ users[rq[r].userId].isActive
         isValid == catchFalse(dbOk, validateTokenResult(found, active))
         seen == [rq[r] EXCEPT !.looked = TRUE, !.seenFound = found,
                               !.seenActive = active,
                               !.storeError = IF dbOk THEN "none" ELSE "user"]
     IN IF ~isValid
          THEN rq' = [rq EXCEPT ![r] = [seen EXCEPT !.pc = "done", !.status = 401,
                                          !.error = "User account is inactive or revoked"]]
        ELSE IF rq[r].route \in {"logout", "checkPermission"}
          THEN rq' = [rq EXCEPT ![r] = [seen EXCEPT !.pc = "handler", !.reqUser = TRUE]]
        ELSE IF rq[r].route = "revoke"
          THEN rq' = [rq EXCEPT ![r] = [seen EXCEPT !.pc = "perm", !.reqUser = TRUE]]
        ELSE rq' = [rq EXCEPT ![r] = [seen EXCEPT !.pc = "perm"]]
  /\ UNCHANGED <<now, msalClient, users, grants, authLog, usedCodes, tokens,
                 issuedStates, cb, served, permCall, wh, jwtCall, refreshCall,
                 process>>

\* checkUserPermission(userId, 'admin') of requireAdmin; a failed lookup is
\* caught by checkUserPermission and answers false
RequestPerm(r, dbOk) ==
  /\ rq[r].pc = "perm"
  /\ LET hasPermission ==
           catchFalse(dbOk, checkUserPermission(rq[r].userId, "admin"))
         storeError == IF dbOk THEN "none" ELSE "grants"
     IN IF ~hasPermission
          THEN rq' = [rq EXCEPT ![r].pc = "done", ![r].status = 403,
                                ![r].error = "Admin permission required",
                                ![r].storeError = storeError]
          ELSE rq' = [rq EXCEPT ![r].pc = "handler", ![r].reqUser = TRUE,
                                ![r].storeError = storeError]
  /\ UNCHANGED <<now, msalClient, users, grants, authLog, usedCodes, tokens,
                 issuedStates, cb, served, permCall, wh, jwtCall, refreshCall,
                 process>>

\* a logout that also deactivates the user
logoutDeactivating(r, failAt) ==
  LET userId == rq[r].userId
  IN IF userId \notin DOMAIN users \/ failAt = "update"
       THEN /\ rq' = [rq EXCEPT ![r].pc = "done", ![r].handlerRan = TRUE,
                                ![r].status = 500]
            /\ UNCHANGED <<users, authLog>>
       ELSE /\ users' = [users EXCEPT ![userId].accessToken = NullAccessToken,
                                      ![userId].lastLogoutAt = now,
                                      ![userId].isActive = FALSE]
            /\ rq' = [rq EXCEPT ![r].pc = "done", ![r].handlerRan = TRUE,
                                ![r].status = 200]
            /\ authLog' = LogCreate(LogEntry(userId, "logout", TRUE))

\* logout(userId): user.update, then authLog.create
logout(r, failAt) ==
  LET userId == rq[r].userId
  IN IF userId \notin DOMAIN users \/ failAt = "update"
       THEN /\ rq' = [rq EXCEPT ![r].pc = "done", ![r].handlerRan = TRUE,
                                ![r].status = 500]
            /\ UNCHANGED <<users, authLog>>
       ELSE /\ users' = [users EXCEPT ![userId].accessToken = NullAccessToken,
                                      ![userId].lastLogoutAt = now]
            /\ IF failAt = "log"
                 THEN /\ rq' = [rq EXCEPT ![r].pc = "done", ![r].handlerRan = TRUE,
                                          ![r].status = 500]
                      /\ UNCHANGED authLog
                 ELSE /\ rq' = [rq EXCEPT ![r].pc = "done", ![r].handlerRan = TRUE,
                                          ![r].status = 200]
                      /\ authLog' = LogCreate(LogEntry(userId, "logout", TRUE))

\* a revocation that deletes the row instead of updating it
revokeUserAccessDeleting(r, failAt) ==
  LET userId == rq[r].target
  IN IF userId \notin DOMAIN users \/ failAt = "update"
       THEN /\ rq' = [rq EXCEPT ![r].pc = "done", ![r].handlerRan = TRUE,
                                ![r].status = 500]
            /\ UNCHANGED <<users, authLog>>
       ELSE /\ users' = [u \in DOMAIN users \ {userId} |-> users[u]]
            /\ rq' = [rq EXCEPT ![r].pc = "done", ![r].handlerRan = TRUE,
                                ![r].status = 200]
            /\ authLog' = LogCreate(LogEntry(userId, "revoke", TRUE))

\* revokeUserAccess(userId): user.update, then authLog.create
revokeUserAccess(r, failAt) ==
  LET userId == rq[r].target
  IN IF userId \notin DOMAIN users \/ failAt = "update"
       THEN /\ rq' = [rq EXCEPT ![r].pc = "done", ![r].handlerRan = TRUE,
                                ![r].status = 500]
            /\ UNCHANGED <<users, authLog>>
       ELSE /\ users' = [users EXCEPT ![userId].isActive = FALSE,
                                      ![userId].accessToken = NullAccessToken,
                                      ![userId].revokedAt = now]
            /\ IF failAt = "log"
                 THEN /\ rq' = [rq EXCEPT ![r].pc = "done", ![r].handlerRan = TRUE,
                                          ![r].status = 500]
                      /\ UNCHANGED authLog
                 ELSE /\ rq' = [rq EXCEPT ![r].pc = "done", ![r].handlerRan = TRUE,
                                          ![r].status = 200]
                      /\ authLog' = LogCreate(LogEntry(userId, "revoke", TRUE))

\* the route handler behind the middleware
RequestHandler(r, failAt) ==
  /\ rq[r].pc = "handler"
  /\ CASE rq[r].route = "logout" -> logout(r, failAt)
       [] rq[r].route = "revoke" -> revokeUserAccess(r, failAt)
       [] rq[r].route = "checkPermission" ->
            /\ rq' = [rq EXCEPT ![r].pc = "done", ![r].handlerRan = TRUE,
                                ![r].status = 200,
                                ![r].hasPermission =
                                   failAt = "none" /\
                                   checkUserPermission(rq[r].userId, rq[r].permission)]
            /\ UNCHANGED <<users, authLog>>
       [] OTHER ->
            /\ rq' = [rq EXCEPT ![r].pc = "done", ![r].handlerRan = TRUE,
                                ![r].status = 200]
            /\ UNCHANGED <<users, authLog>>
  /\ UNCHANGED <<now, msalClient, grants, usedCodes, tokens, issuedStates,
                 cb, served, permCall, wh, jwtCall, refreshCall,
                 process>>

\* the protected requests, for the routes given, the token in the header or
\* in the query (SpecTransport sends tokens in every place, cookie included)
Requests(routes) ==
  \/ \E r \in RqSlots, route \in routes, where \in {"header", "query"},
        tok \in Presentable \cup {NoToken} :
       \E target \in IF route = "revoke" THEN 1 .. 2 ELSE {NoUser},
          permission \in IF route = "checkPermission" THEN PermNames ELSE {"none"} :
         RequestStart(r, route, where, tok, target, permission)
  \/ \E r \in RqSlots, dbOk \in BOOLEAN : RequestLookup(r, dbOk)
  \/ \E r \in RqSlots, dbOk \in BOOLEAN : RequestPerm(r, dbOk)
  \/ \E r \in RqSlots, failAt \in {"none", "update", "log"} : RequestHandler(r, failAt)

(***************************************************************************)
(* checkUserPermission called on the service: the lookup and its answer.   *)
(* A failed lookup is caught inside the method and answers false: the      *)
(* method never throws.                                                    *)
(***************************************************************************)
CheckPermissionCall(userId, permission, dbOk) ==
  /\ permCall' = [userId |-> userId, permission |-> permission,
                  dbOk |-> dbOk, threw |-> FALSE,
                  result |-> dbOk /\ checkUserPermission(userId, permission),
                  at |-> now]
  /\ UNCHANGED <<now, msalClient, users, grants, authLog, usedCodes, tokens,
                 issuedStates, cb, rq, served, wh, jwtCall, refreshCall,
                 process>>

(***************************************************************************)
(* The Slack webhook middleware verifySlackSignature and                   *)
(* SlackService.verifyWebhookSignature.                                    *)
(*                                                                         *)
(* A body is a sequence of symbols, "ws" being insignificant white space.  *)
(* express.json parses it; the middleware signs JSON.stringify of the      *)
(* parsed value, which carries no white space.  An HMAC is the pair (key,  *)
(* message): two of them are equal exactly when both parts are.            *)
(***************************************************************************)
NoHeader == <<"absent">>
NoTimestamp == NoTime
RawBodies == {<<"{", "a", "}">>, <<"{", "ws", "a", "}">>, <<"{", "b", "}">>}
WebhookRoutes == {"events", "commands", "interactive"}

NotWhiteSpace(c) == c # "ws"
\* express.json: the parsed value, known by its significant symbols
expressJson(raw) == [json |-> SelectSeq(raw, NotWhiteSpace)]
\* JSON.stringify: the serialisation without white space
JSONstringify(value) == value.json

\* `v0:${timestamp}:${body}`
BaseString(timestamp, body) == <<"v0:", timestamp, ":">> \o body

createHmacHex(key, message) == <<"hmac-sha256", key, message>>

ExpectedSignature(timestamp, body) ==
  <<"v0=", createHmacHex(process.env["SLACK_SIGNING_SECRET"], BaseString(timestamp, body))>>

\* a header that is no signature at all: not the length of "v0=" + 64 digits
Garbage == <<"v0=bad">>
ByteLength(sig) == IF sig = Garbage THEN Len("v0=") + 3 ELSE Len("v0=") + 64

\* a comparison that looks at the lengths only
timingSafeEqualLengthOnly(a, b) ==
  [threw |-> FALSE, value |-> ByteLength(a) = ByteLength(b)]

\* crypto.timingSafeEqual: throws on buffers of different length
timingSafeEqual(a, b) ==
  IF ByteLength(a) # ByteLength(b) THEN [threw |-> TRUE, value |-> FALSE]
  ELSE [threw |-> FALSE, value |-> a = b]

\* JavaScript values the middleware tests with `!`
Promise(v) == [type |-> "promise", value |-> v, rejected |-> FALSE]
Truthy(v) == IF v.type = "promise" THEN TRUE ELSE v.value

\* an async method: its caller receives a promise of the answer.
\* crypto.createHmac throws on a key that is undefined; the catch answers
\* false, as it does when timingSafeEqual throws.
verifyWebhookSignature(signature, timestamp, body) ==
  IF process.env["SLACK_SIGNING_SECRET"] = Absent THEN Promise(FALSE)
  ELSE LET eq == timingSafeEqual(signature, ExpectedSignature(timestamp, body))
       IN Promise(IF eq.threw THEN FALSE ELSE eq.value)

\* what the sender of a request can put into the signature header: what
\* Slack signed for some timestamp and body, the same under another key, a
\* string that is no signature, or nothing
SenderSignatures(times) ==
  {ExpectedSignature(ts, raw) : ts \in times, raw \in RawBodies}
    \cup {<<"v0=", createHmacHex("other-secret", BaseString(ts, raw))>> :
            ts \in times, raw \in {<<"{", "a", "}">>}}
    \cup {Garbage, NoHeader}

\* a header check that looks at the signature header only
headersMissingSignatureOnly(signature, timestamp) == signature = NoHeader

\* !signature || !timestamp
headersMissing(signature, timestamp) ==
  signature = NoHeader \/ timestamp = NoTimestamp

\* hmacComputed keeps whether verifyWebhookSignature was called and its
\* createHmac ran; resolved keeps the value its promise resolves to and
\* rejected whether the promise was rejected instead
verifySlackSignature(route, signature, timestamp, raw) ==
  /\ LET body == JSONstringify(expressJson(raw))
         isValid == verifyWebhookSignature(signature, timestamp, body)
         request == [route |-> route, signature |-> signature,
                     timestamp |-> timestamp, raw |-> raw, at |-> now]
         called == [request |-> request, status |-> 0, nextCalled |-> FALSE,
                    hmacComputed |-> process.env["SLACK_SIGNING_SECRET"] # Absent,
                    resolved |-> isValid.value,
                    rejected |-> isValid.rejected]
     IN IF headersMissing(signature, timestamp)
          THEN wh' = [request |-> request, status |-> 401, nextCalled |-> FALSE,
                      hmacComputed |-> FALSE, resolved |-> FALSE,
                      rejected |-> FALSE]
        ELSE IF ~Truthy(isValid)
          THEN wh' = [called EXCEPT !.status = 401]
        ELSE wh' = [called EXCEPT !.status = 200, !.nextCalled = TRUE]
  /\ UNCHANGED <<now, msalClient, users, grants, authLog, usedCodes, tokens,
                 issuedStates, cb, rq, served, permCall, jwtCall, refreshCall,
                 process>>

(***************************************************************************)
(* The clock.                                                              *)
(***************************************************************************)
Tick(step, limit) ==
  /\ now + step <= limit
  /\ now' = now + step
  /\ UNCHANGED <<msalClient, users, grants, authLog, usedCodes, tokens,
                 issuedStates, cb, rq, served, permCall, wh, jwtCall, refreshCall,
                 process>>

(***************************************************************************)
(* Initial state: the process has constructed its services; the database   *)
(* is empty.                                                               *)
(***************************************************************************)
NoPermCall ==
  [userId |-> NoUser, permission |-> "none", dbOk |-> TRUE, threw |-> FALSE,
   result |-> FALSE, at |-> NoTime]
NoJwtCall == [token |-> NoToken, at |-> NoTime, result |-> NullClaims, threw |-> FALSE]
NoRefreshCall == [ext |-> "none", outcome |-> "none"]
NoWebhook ==
  [request |-> [route |-> "none", signature |-> NoHeader,
               timestamp |-> NoTimestamp, raw |-> <<>>, at |-> NoTime],
   status |-> 0, nextCalled |-> FALSE, hmacComputed |-> FALSE,
   resolved |-> FALSE, rejected |-> FALSE]

Init ==
  /\ process = [env |-> FullEnv, exited |-> FALSE]
  /\ now = 0
  /\ msalClient = [inst \in Instances |-> FALSE]
  /\ users = <<>>
  /\ grants = {}
  /\ authLog = EmptyBag
  /\ usedCodes = {}
  /\ tokens = {}
  /\ issuedStates = {}
  /\ cb = [i \in CbSlots |-> IdleCallback]
  /\ rq = [r \in RqSlots |-> IdleRequest]
  /\ served = 0
  /\ permCall = NoPermCall
  /\ wh = NoWebhook
  /\ jwtCall = NoJwtCall
  /\ refreshCall = NoRefreshCall

\* the callback exchanges, for the state values and entry points given
Callbacks(vias, states, oks) ==
  \/ \E i \in CbSlots, via \in vias, code \in Codes \cup {NoCode},
        state \in states, hasError \in BOOLEAN, providerUp \in oks,
        profileOk \in oks :
       CallbackStart(i, via, code, state, hasError, providerUp, profileOk)
  \/ \E i \in CbSlots, dbOk \in oks : CallbackUpsert(i, dbOk)
  \/ \E i \in CbSlots, dbOk \in oks : CallbackLog(i, dbOk)

(***************************************************************************)
(* SpecLogin: the login flow alone, with every entry point and state value.*)
(***************************************************************************)
NextLogin ==
  \/ initializeServices
  \/ \E via \in {"route", "direct"}, s \in States \cup {NoState} : getAuthUrl(via, s)
  \/ Callbacks({"route", "direct"}, States, BOOLEAN)
  \/ Tick(OneDay, MaxTicks * OneDay)

SpecLogin == Init /\ [][NextLogin]_vars

(***************************************************************************)
(* Spec: logins on the App's initialized instance, protected requests on   *)
(* the routers, the administrative grant of admin, the clock.  The clock   *)
(* steps by a day, an exchange with the provider takes seconds: no day     *)
(* passes while an exchange is in flight.                                  *)
(***************************************************************************)
CallbacksQuiet == \A i \in CbSlots : cb[i].pc \in {"idle", "done"}

Next ==
  \/ initializeServices
  \/ Callbacks({"direct"}, {"s1"}, {TRUE})
  \/ \E u \in 1 .. 2 : GrantPermission(u, "admin", NoTime)
  \/ Requests({"logout", "revoke", "adminOverview"})
  \/ CallbacksQuiet /\ Tick(OneDay, MaxTicks * OneDay)

Spec == Init /\ [][Next]_vars

(***************************************************************************)
(* SpecPerm: checkUserPermission over a database that holds one user and   *)
(* any grants an administrator may have given that user.                   *)
(***************************************************************************)
SeededUsers ==
  [u \in {1} |-> [azureId |-> "ext-1", email |-> "a@x.com", isActive |-> TRUE,
                  accessToken |-> NullAccessToken, lastLoginAt |-> 0,
                  lastLogoutAt |-> NoTime, revokedAt |-> NoTime]]

GrantChoices(name) ==
  {{}} \cup {{Grant(1, name, a, e)} : a \in BOOLEAN, e \in {NoTime, OneDay}}

InitPerm ==
  /\ process = [env |-> FullEnv, exited |-> FALSE]
  /\ now = 0
  /\ msalClient = [inst \in Instances |-> FALSE]
  /\ users = SeededUsers
  /\ \E ga \in GrantChoices("admin"), gr \in GrantChoices("reports") :
       grants = ga \cup gr
  /\ authLog = EmptyBag
  /\ usedCodes = {}
  /\ tokens = {}
  /\ issuedStates = {}
  /\ cb = [i \in CbSlots |-> IdleCallback]
  /\ rq = [r \in RqSlots |-> IdleRequest]
  /\ served = 0
  /\ permCall = NoPermCall
  /\ wh = NoWebhook
  /\ jwtCall = NoJwtCall
  /\ refreshCall = NoRefreshCall

NextPerm ==
  \/ \E userId \in 1 .. 2, permission \in PermNames \cup {"export"},
        dbOk \in BOOLEAN :
       CheckPermissionCall(userId, permission, dbOk)
  \/ Tick(OneDay, MaxTicks * OneDay)

SpecPerm == InitPerm /\ [][NextPerm]_vars

(***************************************************************************)
(* SpecWebhook: requests to the Slack routes, the clock in steps of five   *)
(* minutes.                                                                *)
(***************************************************************************)
WebhookTimes == {k * FiveMinutes : k \in 0 .. MaxWebhookTicks}

NextWebhook ==
  \/ \E route \in WebhookRoutes, raw \in RawBodies,
        timestamp \in {ts \in WebhookTimes : ts <= now} \cup {NoTimestamp},
        signature \in SenderSignatures({ts \in WebhookTimes : ts <= now}) :
       verifySlackSignature(route, signature, timestamp, raw)
  \/ Tick(FiveMinutes, MaxWebhookTicks * FiveMinutes)

SpecWebhook == Init /\ [][NextWebhook]_vars

(***************************************************************************)
(* SpecVerify: verifyJWT called on the service with any token a caller can *)
(* build around the claims of a user, at any time.                         *)
(***************************************************************************)
\* the try/catch of verifyJWT turns every error of jwt.verify into null
VerifyCall(token) ==
  /\ jwtCall' = [token |-> token, at |-> now, result |-> verifyJWT(token, now),
                 threw |-> FALSE]
  /\ UNCHANGED <<now, msalClient, users, grants, authLog, usedCodes, tokens,
                 issuedStates, cb, rq, served, permCall, wh, refreshCall,
                 process>>

\* a token as minted and what can be made of it: the expiry pushed out
\* under the old signature, signed with another key, another issuer or
\* audience under the right key, declared unsigned, declared HS512
TokenShapes(good) ==
  {good, Tampered(good),
   [good EXCEPT !.sig = Sign("other-key", good.claims)],
   [good EXCEPT !.claims.iss = "other-issuer",
                !.sig = Sign(JwtSecret, [good.claims EXCEPT !.iss = "other-issuer"])],
   [good EXCEPT !.claims.aud = "other-audience",
                !.sig = Sign(JwtSecret, [good.claims EXCEPT !.aud = "other-audience"])],
   [good EXCEPT !.alg = "none", !.sig = SignAs("none", "", good.claims)],
   [good EXCEPT !.alg = "HS512", !.sig = SignAs("HS512", JwtSecret, good.claims)]}

VerifyInputs ==
  UNION {TokenShapes(generateJWT([id |-> u, email |-> e], t)) :
           u \in 1 .. 2, e \in Emails, t \in {0, OneDay}}
    \cup {Malformed}

InitVerify ==
  /\ process = [env |-> FullEnv, exited |-> FALSE]
  /\ now = 0
  /\ msalClient = [inst \in Instances |-> FALSE]
  /\ users = SeededUsers
  /\ grants = {}
  /\ authLog = EmptyBag
  /\ usedCodes = {}
  /\ tokens = {}
  /\ issuedStates = {}
  /\ cb = [i \in CbSlots |-> IdleCallback]
  /\ rq = [r \in RqSlots |-> IdleRequest]
  /\ served = 0
  /\ permCall = NoPermCall
  /\ wh = NoWebhook
  /\ jwtCall = NoJwtCall
  /\ refreshCall = NoRefreshCall

NextVerify ==
  \/ \E token \in VerifyInputs : VerifyCall(token)
  \/ Tick(OneDay, MaxTicks * OneDay)

SpecVerify == InitVerify /\ [][NextVerify]_vars

(***************************************************************************)
(* SpecTransport: protected requests that carry tokens in any of the three *)
(* places at once, for a user who has logged in.                           *)
(***************************************************************************)
SeededToken == generateJWT([id |-> 1, email |-> SeededUsers[1].email], 0)

InitTransport ==
  /\ process = [env |-> FullEnv, exited |-> FALSE]
  /\ now = 0
  /\ msalClient = [inst \in Instances |-> FALSE]
  /\ users = SeededUsers
  /\ grants = {}
  /\ authLog = EmptyBag
  /\ usedCodes = {}
  /\ tokens = {SeededToken}
  /\ issuedStates = {}
  /\ cb = [i \in CbSlots |-> IdleCallback]
  /\ rq = [r \in RqSlots |-> IdleRequest]
  /\ served = 0
  /\ permCall = NoPermCall
  /\ wh = NoWebhook
  /\ jwtCall = NoJwtCall
  /\ refreshCall = NoRefreshCall

NextTransport ==
  \/ \E r \in RqSlots, route \in {"logout", "adminOverview"},
        h \in Presentable \cup {NoToken}, c \in Presentable \cup {NoToken},
        q \in Presentable \cup {NoToken} :
       RequestReceive(r, route, SentRequest(h, c, q), NoUser, "none")
  \/ \E r \in RqSlots, dbOk \in BOOLEAN : RequestLookup(r, dbOk)
  \/ \E r \in RqSlots, dbOk \in BOOLEAN : RequestPerm(r, dbOk)
  \/ \E r \in RqSlots, failAt \in {"none", "update", "log"} : RequestHandler(r, failAt)
  \/ Tick(OneDay, MaxTicks * OneDay)

SpecTransport == InitTransport /\ [][NextTransport]_vars

(***************************************************************************)
(* SpecAccounts: the operations on an account that already exists.  The    *)
(* database holds one user who has logged in and is an administrator, and  *)
(* who holds a session token.  A login, refreshes, logouts and revocations *)
(* (of that user, or of an id no row has) interleave, and the clock (in    *)
(* seconds) moves between any two steps.                                   *)
(***************************************************************************)
InitAccounts ==
  /\ process = [env |-> FullEnv, exited |-> FALSE]
  /\ now = 0
  /\ msalClient = [inst \in Instances |-> inst = "app"]
  /\ users = SeededUsers
  /\ grants = {Grant(1, "admin", TRUE, NoTime)}
  /\ authLog = SetToBag({LogEntry(1, "login", TRUE)})
  /\ usedCodes = {}
  /\ tokens = {SeededToken}
  /\ issuedStates = {}
  /\ cb = [i \in CbSlots |-> IdleCallback]
  /\ rq = [r \in RqSlots |-> IdleRequest]
  /\ served = 0
  /\ permCall = NoPermCall
  /\ wh = NoWebhook
  /\ jwtCall = NoJwtCall
  /\ refreshCall = NoRefreshCall

NextAccounts ==
  \/ CallbackStart(1, "direct", "c1", "s1", FALSE, TRUE, TRUE)
  \/ CallbackUpsert(1, TRUE)
  \/ CallbackLog(1, TRUE)
  \/ \E via \in {"route", "direct"}, ext \in ExtIds :
       refreshCall = NoRefreshCall /\ refreshToken(via, ext, TRUE, TRUE)
  \/ \E r \in RqSlots, route \in {"logout", "revoke"}, target \in 1 .. 2 :
       RequestStart(r, route, "header", SeededToken,
                    IF route = "revoke" THEN target ELSE NoUser, "none")
  \/ \E r \in RqSlots : RequestLookup(r, TRUE)
  \/ \E r \in RqSlots : RequestPerm(r, TRUE)
  \/ \E r \in RqSlots, failAt \in {"none", "update", "log"} : RequestHandler(r, failAt)
  \/ Tick(1, MaxTicks)

SpecAccounts == InitAccounts /\ [][NextAccounts]_vars

(***************************************************************************)
(* SpecStartup: the process started with any subset of its secrets         *)
(* configured.  The constructor of App starts initializeServices without   *)
(* awaiting it and app.start() listens at once, so the process answers     *)
(* until it exits: a login on the App's instance, verifyJWT calls and      *)
(* webhook requests.                                                       *)
(***************************************************************************)
Environments == [EnvNames -> {Absent} \cup EnvNames]

InitStartup ==
  /\ process \in {[env |-> env, exited |-> FALSE] :
                    env \in {x \in Environments :
                               \A n \in EnvNames : x[n] \in {Absent, n}}}
  /\ now = 0
  /\ msalClient = [inst \in Instances |-> FALSE]
  /\ users = <<>>
  /\ grants = {}
  /\ authLog = EmptyBag
  /\ usedCodes = {}
  /\ tokens = {}
  /\ issuedStates = {}
  /\ cb = [i \in CbSlots |-> IdleCallback]
  /\ rq = [r \in RqSlots |-> IdleRequest]
  /\ served = 0
  /\ permCall = NoPermCall
  /\ wh = NoWebhook
  /\ jwtCall = NoJwtCall
  /\ refreshCall = NoRefreshCall

\* tokens a caller presents: one minted by the service, and one signed by
\* the caller with the secret the code falls back to
StartupTokens ==
  LET claims == generateJWT([id |-> 1, email |-> "a@x.com"], 0).claims
  IN {generateJWT([id |-> 1, email |-> "a@x.com"], 0),
      [kind |-> "jwt", alg |-> "HS256", claims |-> claims,
       sig |-> Sign("your-secret-key", claims)]}

NextStartup ==
  \/ initializeServices
  \/ ~process.exited /\ CallbackStart(1, "direct", "c1", "s1", FALSE, TRUE, TRUE)
  \/ ~process.exited /\ CallbackUpsert(1, TRUE)
  \/ ~process.exited /\ CallbackLog(1, TRUE)
  \/ \E token \in StartupTokens : ~process.exited /\ VerifyCall(token)
  \/ \E raw \in RawBodies, signature \in SenderSignatures({0}) :
       ~process.exited /\ verifySlackSignature("events", signature, 0, raw)

SpecStartup == InitStartup /\ [][NextStartup]_vars

(***************************************************************************)
(* Properties of the protected requests (Spec).                            *)
(***************************************************************************)
SignatureValid(tok) == tok.kind = "jwt" /\ tok.sig = Sign(JwtSecret, tok.claims)

\* the three clauses, as the request met them: the signature, the expiry at
\* the time of the check, the account at the time of the lookup
Trusted(r) ==
  /\ SignatureValid(rq[r].token)
  /\ rq[r].tStart < rq[r].token.claims.exp
  /\ rq[r].looked /\ rq[r].seenFound /\ rq[r].seenActive

Rejected401(r) ==
  /\ rq[r].pc = "done" /\ rq[r].status = 401
  /\ ~rq[r].handlerRan /\ ~rq[r].reqUser

\* C1: a request whose revocation lookup finds the user inactive or missing
\* is answered 401, req.user is not set and next() is not called, although
\* verifyJWT returns the claims of its token.
C1_InactiveUserRejected ==
  \A r \in RqSlots :
    (rq[r].looked /\ ~(rq[r].seenFound /\ rq[r].seenActive)) =>
       /\ Rejected401(r)
       /\ verifyJWT(rq[r].token, rq[r].tStart) # NullClaims

\* a minted, unexpired token of a revoked user was presented and refused
C1_Witness ==
  \E r \in RqSlots :
    /\ rq[r].looked /\ rq[r].seenFound /\ ~rq[r].seenActive
    /\ rq[r].token \in tokens
    /\ users[rq[r].userId].revokedAt # NoTime
    /\ rq[r].status = 401

\* C2: no operation sets isActive of a user back to true (the code has no
\* reinstatement operation at all).
C2_NeverReactivated ==
  [][\A u \in DOMAIN users : ~users[u].isActive => ~users'[u].isActive]_vars

\* C3: req.user is set and the handler runs only for a token with a valid
\* signature, unexpired, whose user exists and is active; a request that
\* fails one of the three is answered 401 and never reaches its handler.
C3_ConjunctionOfThree ==
  \A r \in RqSlots :
    ~Trusted(r) =>
       /\ ~rq[r].handlerRan /\ ~rq[r].reqUser
       /\ rq[r].pc \in {"idle", "lookup", "done"}
       /\ rq[r].pc = "done" => rq[r].status = 401

\* handlers behind requireAuth and behind the admin router's requireAdmin ran
C3_Witness ==
  \E r \in RqSlots :
    /\ rq[r].handlerRan /\ rq[r].status = 200
    /\ rq[r].route = "adminOverview"
    /\ \E u \in DOMAIN users : ~users[u].isActive

\* C4: a token whose exp is in the past is refused by verifyJWT, by
\* validateToken and by the middleware, whatever the state of its user.
C4_ExpiredRejected ==
  /\ \A tok \in Presentable :
       (tok.kind = "jwt" /\ tok.claims.exp < now) =>
          /\ verifyJWT(tok, now) = NullClaims
          /\ ~validateTokenSync(tok, now).ok
  /\ \A r \in RqSlots :
       (rq[r].token.kind = "jwt" /\ rq[r].token.claims.exp < rq[r].tStart) =>
          Rejected401(r) /\ ~rq[r].looked

\* a minted token of an active user was refused after its expiry
C4_Witness ==
  \E r \in RqSlots :
    /\ rq[r].token \in tokens
    /\ rq[r].token.claims.exp < rq[r].tStart
    /\ rq[r].status = 401
    /\ users[rq[r].token.claims.userId].isActive

AdminGuarded == {"revoke", "adminOverview"}

\* C12: on an admin-guarded route the permission check and the handler are
\* reached only after the revocation lookup has found the user active.
C12_AdminAfterRevocationGate ==
  \A r \in RqSlots :
    (/\ rq[r].route \in AdminGuarded
     /\ (rq[r].pc \in {"perm", "handler"} \/ rq[r].handlerRan))
      => (rq[r].looked /\ rq[r].seenFound /\ rq[r].seenActive)

\* a revoked holder of the admin grant was refused on an admin-guarded route
C12_Witness ==
  \E r \in RqSlots :
    /\ rq[r].route \in AdminGuarded
    /\ rq[r].looked /\ rq[r].seenFound /\ ~rq[r].seenActive
    /\ rq[r].status = 401 /\ ~rq[r].handlerRan
    /\ \E g \in grants : g.userId = rq[r].userId /\ g.name = "admin"

C17_FirstPlaceWins ==
  \A r \in RqSlots :
    rq[r].pc # "idle" =>
      /\ rq[r].token = rq[r].presented
      /\ rq[r].presented = NoToken => Rejected401(r)

\* the user holds a grant named admin
HoldsAdmin(userId) == \E g \in grants : g.userId = userId /\ g.name = "admin"

\* C24: a user's isActive goes from true to false only in the step of the
\* handler of a revoke request for that user, a request whose token passed
\* verification, whose requester passed the revocation lookup and who
\* holds the admin permission.
C24_DeactivatedOnlyByCheckedRevoke ==
  [][\A u \in DOMAIN users \cap DOMAIN users' :
       (users[u].isActive /\ ~users'[u].isActive) =>
          \E r \in RqSlots :
             /\ rq[r].pc = "handler" /\ rq[r].route = "revoke"
             /\ rq[r].target = u /\ rq'[r].handlerRan
             /\ Trusted(r)
             /\ HoldsAdmin(rq[r].userId)]_vars

\* an administrator's revoke request has deactivated its target
C24_Witness ==
  \E r \in RqSlots :
     /\ rq[r].route = "revoke" /\ rq[r].status = 200 /\ Trusted(r)
     /\ HoldsAdmin(rq[r].userId)
     /\ rq[r].target \in DOMAIN users
     /\ ~users[rq[r].target].isActive

\* the request was refused by the middleware for the reason given: its
\* token did not verify, its account was revoked or missing at the lookup,
\* or it passed requireAuth (req.user is set) and its requester lacks the
\* admin permission
RefusedFor(r, why) ==
  /\ rq[r].pc = "done" /\ ~rq[r].handlerRan /\ rq[r].token # NoToken
  /\ CASE why = "token" -> verifyJWT(rq[r].token, rq[r].tStart) = NullClaims
       [] why = "account" -> rq[r].looked /\ ~(rq[r].seenFound /\ rq[r].seenActive)
       [] why = "permission" ->
            /\ rq[r].route = "revoke" /\ rq[r].reqUser
            /\ ~HoldsAdmin(rq[r].userId)

\* what the caller sees of a refusal
Response(r) == [status |-> rq[r].status, error |-> rq[r].error]

\* the response of the middleware to a token that does not verify
InvalidTokenRefusal == [status |-> 401, error |-> "Invalid or expired token"]

\* C27: the refusals for an invalid or expired token, for a revoked or
\* missing account and for a missing permission carry the same status code
\* and the same body: each is the response an invalid token gets.
C27_RefusalsIndistinguishable ==
  \A r \in RqSlots :
    (\E why \in {"token", "account", "permission"} : RefusedFor(r, why)) =>
       Response(r) = InvalidTokenRefusal

\* C36: a request whose user lookup in validateToken failed is answered
\* 401, and a request whose grant lookup in checkUserPermission failed
\* during the admin check is answered 403; the handler of neither runs.
C36_FailClosedOnStoreError ==
  \A r \in RqSlots :
    /\ rq[r].storeError = "user" =>
         (rq[r].pc = "done" /\ rq[r].status = 401 /\ ~rq[r].handlerRan)
    /\ rq[r].storeError = "grants" =>
         (rq[r].pc = "done" /\ rq[r].status = 403 /\ ~rq[r].handlerRan)

\* an active administrator's request was refused 403 because the grant
\* lookup failed
C36_Witness ==
  \E r \in RqSlots :
     /\ rq[r].storeError = "grants" /\ rq[r].status = 403
     /\ rq[r].seenFound /\ rq[r].seenActive
     /\ HoldsAdmin(rq[r].userId)

\* C37: a request that carries a verifying session token in the jwt cookie
\* only is taken by requireAuth as a request of the user the token was
\* issued to: the middleware extracts that token and goes on with its user.
C37_CookieOnlyAuthenticated ==
  \A r \in RqSlots :
    (/\ rq[r].pc # "idle" /\ rq[r].cookieOnly
     /\ verifyJWT(rq[r].presented, rq[r].tStart) # NullClaims)
      => /\ rq[r].token = rq[r].presented
         /\ rq[r].userId = rq[r].presented.claims.userId

(***************************************************************************)
(* Properties of the webhook middleware (SpecWebhook).                     *)
(***************************************************************************)
WebhookAnswered == wh.status # 0
BothHeaders == wh.request.signature # NoHeader /\ wh.request.timestamp # NoTimestamp
WebhookRejected == wh.status = 401 /\ ~wh.nextCalled

\* the spec's tolerance window of five minutes; the code has none
ToleranceSeconds == FiveMinutes

\* C5: a request with both headers whose signature is not the HMAC of its
\* timestamp and body under the secret is answered 401 and next() is not
\* called.
C5_BadSignatureRejected ==
  (/\ WebhookAnswered /\ BothHeaders
   /\ wh.request.signature # ExpectedSignature(wh.request.timestamp, wh.request.raw))
    => WebhookRejected

\* C6: a correctly signed request whose timestamp is older than the
\* tolerance window is refused.
C6_StaleRejected ==
  (/\ WebhookAnswered /\ BothHeaders
   /\ wh.request.signature = ExpectedSignature(wh.request.timestamp, wh.request.raw)
   /\ wh.request.at - wh.request.timestamp > ToleranceSeconds)
    => WebhookRejected

\* C29: a webhook request that lacks the signature header or the timestamp
\* header is answered 401, no HMAC is computed for it and next() is not
\* called.
C29_MissingHeaderRejected ==
  (WebhookAnswered /\ ~BothHeaders) =>
     (WebhookRejected /\ ~wh.hmacComputed /\ ~wh.resolved)

\* a request carrying what Slack signed for its body, without the timestamp
\* header, was refused
C29_Witness ==
  /\ WebhookAnswered
  /\ wh.request.timestamp = NoTimestamp
  /\ \E ts \in WebhookTimes :
       wh.request.signature = ExpectedSignature(ts, wh.request.raw)
  /\ wh.status = 401

\* C30: the signature is verified over the raw body as received: a
\* signature that Slack made for another raw body, one that parses to the
\* same value but differs as a byte string, is not found valid.
C30_RawBodyVerified ==
  (/\ WebhookAnswered /\ BothHeaders
   /\ \E other \in RawBodies :
        /\ other # wh.request.raw
        /\ expressJson(other) = expressJson(wh.request.raw)
        /\ wh.request.signature = ExpectedSignature(wh.request.timestamp, other))
    => ~wh.resolved

(***************************************************************************)
(* Properties of the login flow (SpecLogin).                               *)
(***************************************************************************)
\* C7: a state value that one callback has consumed is refused when a later
\* callback presents it again.
C7_StateNotAcceptedTwice ==
  \A i, j \in CbSlots :
    (/\ CbSucceeded(i) /\ i \in cb[j].doneBefore
     /\ cb[j].state = cb[i].state)
      => ~CbSucceeded(j)

\* C8: of two callbacks that carry the same state value and run
\* concurrently, at most one succeeds.
C8_ConcurrentStateOnce ==
  \A i, j \in CbSlots :
    (/\ i # j /\ cb[i].pc # "idle" /\ cb[j].pc # "idle"
     /\ i \notin cb[j].doneBefore /\ j \notin cb[i].doneBefore
     /\ cb[i].state = cb[j].state)
      => ~(CbSucceeded(i) /\ CbSucceeded(j))

\* C9: a callback is accepted only with a state value that the
\* authorization redirect has issued.
C9_OnlyIssuedStateAccepted ==
  \A i \in CbSlots : CbSucceeded(i) => cb[i].state \in issuedStates

\* a callback request arrives on GET /auth/callback
RouteCallbackReceived(i) ==
  cb[i].pc = "idle" /\ cb'[i].pc # "idle" /\ cb'[i].via = "route"

\* C14: once the services are initialized, a callback request on the route
\* that carries a redeemable code, and meets a provider and a profile fetch
\* that answer, goes on to create the user (and from there to the token).
C14_RouteLoginSucceeds ==
  [][\A i \in CbSlots :
       (/\ RouteCallbackReceived(i) /\ msalClient["app"]
        /\ ~cb'[i].hadError /\ cb'[i].hadCode /\ cb'[i].clean)
         => cb'[i].pc = "upsert"]_vars

\* C32: when a callback request on the route goes on to call
\* handleAuthCallback (no error, a code present), the service instance of
\* the router that serves it has been initialized: its msalClient is not
\* null.
C32_ServingInstanceInitialized ==
  [][\A i \in CbSlots :
       (RouteCallbackReceived(i) /\ ~cb'[i].hadError /\ cb'[i].hadCode)
         => msalClient[InstanceOf(cb'[i].via)]]_vars

\* C18: a callback request with error present, or with code missing, is
\* answered at once with the redirect (error before code), and redeems no
\* code, writes no user and no log entry, and mints no token.
C18_ErrorOrMissingCodeRedirects ==
  [][\A i \in CbSlots :
       (RouteCallbackReceived(i) /\ (cb'[i].hadError \/ ~cb'[i].hadCode)) =>
          /\ cb'[i].pc = "done"
          /\ cb'[i].outcome =
                IF cb'[i].hadError THEN "redirect_error" ELSE "missing_code"
          /\ cb'[i].jwt = NoToken /\ cb'[i].userId = NoUser
          /\ UNCHANGED <<users, authLog, tokens, usedCodes>>]_vars

\* one request with error and no code, one with neither, both redirected
C18_Witness ==
  \E i, j \in CbSlots :
    /\ cb[i].via = "route" /\ cb[i].hadError /\ ~cb[i].hadCode
    /\ cb[i].outcome = "redirect_error"
    /\ cb[j].via = "route" /\ ~cb[j].hadError /\ ~cb[j].hadCode
    /\ cb[j].outcome = "missing_code"

\* C19: a callback exchange that fails has written no user.
C19_FailedExchangeWritesNoUser ==
  \A i \in CbSlots :
    (cb[i].pc = "done" /\ cb[i].outcome # "ok") => cb[i].userId = NoUser

OnePerExternalIdentity ==
  \A u, v \in DOMAIN users : users[u].azureId = users[v].azureId => u = v

\* the exchange that has just upserted holds the row of its own identity
UpsertResolvedByIdentity ==
  \A i \in CbSlots :
    cb[i].pc = "log" =>
      /\ cb[i].userId \in DOMAIN users
      /\ users[cb[i].userId].azureId = cb[i].ext

\* rows keep their id and identity; a step adds at most one row, and only
\* for an identity that had none
UsersStep ==
  /\ \A u \in DOMAIN users :
       u \in DOMAIN users' /\ users'[u].azureId = users[u].azureId
  /\ Cardinality(DOMAIN users') <= Cardinality(DOMAIN users) + 1
  /\ \A u \in DOMAIN users' \ DOMAIN users :
       \A v \in DOMAIN users : users[v].azureId # users'[u].azureId

\* C20: there is at most one user per external identity, a repeated login
\* resolves to the same id whatever email the provider reports, and a first
\* login for an identity adds exactly one row.
C20_ResolvedByExternalIdentity ==
  /\ [](OnePerExternalIdentity /\ UpsertResolvedByIdentity)
  /\ [][UsersStep]_vars

\* two logins of one identity under different emails ended on the same id
C20_Witness ==
  \E i, j \in CbSlots :
    /\ CbSucceeded(i) /\ CbSucceeded(j)
    /\ cb[i].userId = cb[j].userId
    /\ cb[i].jwt.claims.email # cb[j].jwt.claims.email
    /\ Cardinality(DOMAIN users) = 1

(***************************************************************************)
(* Properties of the permission evaluation (SpecPerm).                     *)
(***************************************************************************)
\* a grant is effective while isActive and expiresAt is unset or in the future
Effective(g, t) == g.isActive /\ (g.expiresAt = NoTime \/ g.expiresAt > t)

\* C10: checkUserPermission answers true only on a grant (of the name asked
\* for, or admin) that is effective at the time of the call.
C10_OnlyEffectiveGrantsCount ==
  (permCall.at # NoTime /\ permCall.result) =>
    \E g \in grants :
      /\ g.userId = permCall.userId
      /\ g.name \in {permCall.permission, "admin"}
      /\ Effective(g, permCall.at)

(***************************************************************************)
(* Properties of verifyJWT (SpecVerify).                                   *)
(***************************************************************************)
\* the reasons for which a token is to be refused at time t
MustRefuse(token, t) ==
  \/ token.kind # "jwt"
  \/ token.alg # "HS256"
  \/ token.sig # Sign(JwtSecret, token.claims)
  \/ token.claims.iss # Issuer \/ token.claims.aud # Audience
  \/ t >= token.claims.exp

\* C16: verifyJWT answers null, and never throws, for a token that is
\* malformed, badly signed, of another issuer or audience, expired, or of an
\* algorithm other than HS256; for every other token it answers the claims;
\* and the call leaves users, grants and the log as they were.
C16_VerifyNullOrClaims ==
  /\ [](jwtCall.at # NoTime =>
          /\ ~jwtCall.threw
          /\ jwtCall.result =
                IF MustRefuse(jwtCall.token, jwtCall.at) THEN NullClaims
                ELSE jwtCall.token.claims)
  /\ [][jwtCall' # jwtCall => UNCHANGED <<users, grants, authLog>>]_vars

\* an unsigned token declaring the algorithm none was refused
C16_Witness ==
  /\ jwtCall.at # NoTime
  /\ jwtCall.token.kind = "jwt" /\ jwtCall.token.alg = "none"
  /\ jwtCall.token.claims.exp > jwtCall.at
  /\ jwtCall.result = NullClaims

PermCalled == permCall.at # NoTime
GrantNames(userId) == {g.name : g \in {h \in grants : h.userId = userId}}

\* C11: when the lookup succeeds, a user whose only grant is admin gets true
\* for every permission name, and a user with neither an admin grant nor a
\* grant of the name asked for gets false.
C11_AdminImpliesAll ==
  (PermCalled /\ permCall.dbOk) =>
     /\ (permCall.userId \in DOMAIN users /\ GrantNames(permCall.userId) = {"admin"})
          => permCall.result
     /\ (GrantNames(permCall.userId) \cap {"admin", permCall.permission} = {})
          => ~permCall.result

\* a user holding only admin was asked about another name and got true
C11_Witness ==
  /\ PermCalled /\ permCall.dbOk /\ permCall.result
  /\ GrantNames(permCall.userId) = {"admin"}
  /\ permCall.permission = "export"

\* C13: checkUserPermission answers false without an error for an absent
\* user or no matching grant, and surfaces an error exactly when the lookup
\* itself fails.
C13_ErrorOnlyOnLookupFailure ==
  PermCalled =>
     /\ permCall.threw <=> ~permCall.dbOk
     /\ (/\ permCall.dbOk
         /\ \/ permCall.userId \notin DOMAIN users
            \/ GrantNames(permCall.userId) \cap {"admin", permCall.permission} = {})
          => (~permCall.result /\ ~permCall.threw)

\* the number of login records in the log that carry the success flag
LoginRecords(success) ==
  LET matching == {e \in BagToSet(authLog) :
                     e.action = "login" /\ e.success = success}
  IN BagCardinality([e \in matching |-> CopiesIn(e, authLog)])

\* C22: every callback exchange that has been answered left a login record,
\* with success = true when the login succeeded and success = false when it
\* failed (provider denial, missing code, failed exchange, failed profile
\* fetch).
C22_EveryAttemptLogged ==
  /\ LoginRecords(TRUE) = Cardinality({i \in CbSlots : CbSucceeded(i)})
  /\ LoginRecords(FALSE) =
       Cardinality({i \in CbSlots : cb[i].pc = "done" /\ cb[i].outcome # "ok"})

(***************************************************************************)
(* Properties of the audit trail and of the accounts (SpecAccounts).       *)
(***************************************************************************)
\* the operation a step completes
LoginCompleted ==
  \E i \in CbSlots : cb[i].pc = "log" /\ CbSucceeded(i)'
LogoutCompleted ==
  \E r \in RqSlots : /\ rq[r].pc = "handler" /\ rq[r].route = "logout"
                      /\ rq'[r].status = 200
RevokeCompleted ==
  \E r \in RqSlots : /\ rq[r].pc = "handler" /\ rq[r].route = "revoke"
                      /\ rq'[r].status = 200
RefreshCompleted == refreshCall' # refreshCall /\ refreshCall'.outcome = "ok"
PermissionDecided ==
  \/ permCall' # permCall
  \/ \E r \in RqSlots : rq[r].pc = "perm" /\ rq'[r].pc # "perm"

\* the step appends exactly one record, and it carries the action
AddedOne(action) ==
  \E e \in BagToSet(authLog') :
     e.action = action /\ authLog' = authLog (+) SetToBag({e})

\* C21: every login, logout, refresh, revoke and permission decision that
\* completes leaves the auth-event log with exactly one more record than
\* before, carrying the action of the operation.
C21_OneAuditEventPerOperation ==
  [][/\ LoginCompleted => AddedOne("login")
     /\ LogoutCompleted => AddedOne("logout")
     /\ RevokeCompleted => AddedOne("revoke")
     /\ RefreshCompleted => AddedOne("refresh")
     /\ PermissionDecided => AddedOne("permission")]_vars

\* the log holds a revoke record for the user id
RevokeRecorded(userId) ==
  \E e \in BagToSet(authLog) : e.action = "revoke" /\ e.userId = userId

\* C23: every request the revoke endpoint accepted (it passed requireAuth
\* and requireAdmin and its handler ran) left a revoke record for its
\* target, whether the target exists and whether the update succeeded; and
\* no user has been deactivated by the endpoint without such a record.
C23_RevokeAlwaysAudited ==
  /\ \A r \in RqSlots :
       rq[r].route = "revoke" /\ rq[r].handlerRan => RevokeRecorded(rq[r].target)
  /\ \A u \in DOMAIN users :
       users[u].revokedAt # NoTime => RevokeRecorded(u)

\* C25: no step removes a user row (the set of user ids only grows), and a
\* revocation that succeeds keeps the row of its target, with isActive
\* false, revokedAt set and the identity unchanged.
C25_NeverDeletedOnlyDeactivated ==
  [][/\ DOMAIN users \subseteq DOMAIN users'
     /\ \A r \in RqSlots :
          (rq[r].pc = "handler" /\ rq[r].route = "revoke" /\ rq'[r].status = 200) =>
             /\ rq[r].target \in DOMAIN users'
             /\ ~users'[rq[r].target].isActive
             /\ users'[rq[r].target].revokedAt = now
             /\ users'[rq[r].target].azureId = users[rq[r].target].azureId
             /\ users'[rq[r].target].email = users[rq[r].target].email]_vars

\* a revoked user is still in the table, deactivated, after the operations
\* of the run
C25_Witness ==
  \E u \in DOMAIN users :
     /\ ~users[u].isActive /\ users[u].revokedAt # NoTime
     /\ RevokeRecorded(u)
     /\ refreshCall.outcome = "ok"

\* no login and no request is under way
Quiet ==
  /\ \A i \in CbSlots : cb[i].pc \in {"idle", "done"}
  /\ \A r \in RqSlots : rq[r].pc \in {"idle", "done"}

\* C28: once a login and a revocation of the same user have both ended,
\* isActive is the value written by the one with the later timestamp:
\* false if revokedAt is later than lastLoginAt, true if lastLoginAt is
\* later, whatever the order in which the two writes reached the store.
\* (Runs in which a refresh moved lastLoginAt are left out.)
C28_RaceResolvedByTimestamp ==
  \A u \in DOMAIN users :
    (/\ Quiet /\ refreshCall.outcome # "ok"
     /\ users[u].revokedAt # NoTime
     /\ users[u].revokedAt # users[u].lastLoginAt)
      => (users[u].isActive <=> users[u].lastLoginAt > users[u].revokedAt)

\* C34: a user with isActive = false has a null stored access token, and a
\* refresh for the account of a revoked user neither writes to the user
\* table nor returns a token to its caller.
C34_RevokedUserGetsNoToken ==
  /\ [](\A u \in DOMAIN users :
          ~users[u].isActive => users[u].accessToken = NullAccessToken)
  /\ [][\A u \in DOMAIN users :
          (/\ refreshCall' # refreshCall
           /\ users[u].azureId = refreshCall'.ext
           /\ ~users[u].isActive)
            => (refreshCall'.outcome # "ok" /\ users' = users)]_vars

\* the step is the handler of a logout request
LogoutStep(r) ==
  rq[r].pc = "handler" /\ rq[r].route = "logout" /\ rq'[r].handlerRan

\* C35: a logout changes, of the user table, only the access token (to
\* null) and lastLogoutAt of its user, appends one logout record when it
\* succeeds and none otherwise, and leaves isActive, revokedAt, the grants
\* and the minted tokens alone; and requireAuth accepts every request whose
\* token verifies and whose user the lookup finds active, a logout before
\* it or not.
C35_LogoutFrame ==
  /\ [][\A r \in RqSlots :
          LogoutStep(r) =>
            /\ DOMAIN users' = DOMAIN users
            /\ \A u \in DOMAIN users :
                 users'[u] = users[u] \/
                   /\ u = rq[r].userId
                   /\ users'[u] = [users[u] EXCEPT !.accessToken = NullAccessToken,
                                                   !.lastLogoutAt = now]
            /\ IF rq'[r].status = 200 THEN AddedOne("logout")
                                      ELSE authLog' = authLog
            /\ UNCHANGED <<grants, tokens>>]_vars
  /\ [](\A r \in RqSlots :
          (rq[r].looked /\ rq[r].seenFound /\ rq[r].seenActive) =>
             (rq[r].reqUser /\ rq[r].status # 401))

\* a token minted before a logout was accepted by requireAuth for a request
\* that came after the logout
C35_Witness ==
  \E r \in RqSlots :
     /\ rq[r].reqUser
     /\ users[rq[r].userId].lastLogoutAt # NoTime
     /\ rq[r].token.claims.iat <= users[rq[r].userId].lastLogoutAt
     /\ users[rq[r].userId].lastLogoutAt < rq[r].tStart

(***************************************************************************)
(* Properties of the startup (SpecStartup).                                *)
(***************************************************************************)
SecretPresent(n) == process.env[n] # Absent

\* the body verifySlackSignature hands to verifyWebhookSignature
HandedBody == JSONstringify(expressJson(wh.request.raw))

\* "v0=" followed by the hex HMAC-SHA256 of "v0:" + timestamp + ":" + body
\* under the key
SlackSignature(key, timestamp, body) ==
  <<"v0=", <<"hmac-sha256", key, <<"v0:", timestamp, ":">> \o body>>>>

\* C31: whenever verifyWebhookSignature is called, its promise is never
\* rejected and resolves to true exactly when the webhook secret is set and
\* the claimed signature is the signature of timestamp and body under it;
\* a signature of another length and an absent secret resolve to false.
C31_VerifyExactlyHmac ==
  (WebhookAnswered /\ BothHeaders) =>
     /\ ~wh.rejected
     /\ wh.resolved <=>
          /\ SecretPresent("SLACK_SIGNING_SECRET")
          /\ wh.request.signature =
                SlackSignature(process.env["SLACK_SIGNING_SECRET"],
                               wh.request.timestamp, HandedBody)

\* with the secret set, a claimed signature of the wrong length was
\* answered false and the promise was not rejected
C31_Witness ==
  /\ WebhookAnswered /\ BothHeaders
  /\ wh.request.signature = Garbage
  /\ SecretPresent("SLACK_SIGNING_SECRET")
  /\ ~wh.resolved /\ ~wh.rejected

\* C26: startup completes only with the client id, client secret, tenant,
\* session-signing secret and webhook secret all configured, and the
\* process never mints or verifies a session token without its signing
\* secret, nor lets a webhook request through without the webhook secret.
C26_NoStartWithoutSecrets ==
  /\ msalClient["app"] => \A n \in EnvNames : SecretPresent(n)
  /\ (tokens # {} \/ jwtCall.at # NoTime) => SecretPresent("JWT_SECRET")
  /\ wh.nextCalled => SecretPresent("SLACK_SIGNING_SECRET")

\* initializeServices has run to its end without a throw
ServicesInitialized == msalClient["app"] /\ ~process.exited

\* C33: the server answers a request only after initializeServices has
\* completed successfully; no request is answered before it has, nor when
\* an initializer failed.
C33_NoRequestBeforeInitialized ==
  WebhookAnswered => ServicesInitialized
====
